---- MODULE Spec2Model ----
(***************************************************************************)
(* polymorph::ref_or_owned -- RefOrOwned, RefMutOrOwned, RefOrBox and      *)
(* RefMutOrBox, the impls the two macros ref_or_owned_impls! and           *)
(* ref_or_box_impls! generate for them, and a client that drives them the  *)
(* way the test module does (payloads with a shared-call counter, an       *)
(* exclusive-call counter and a data byte).                                *)
(*                                                                         *)
(* A reference is a place: <<"loc", x>> is the client's variable x,        *)
(* <<"own", c>> is the value stored inline in container c, <<"heap", a>>   *)
(* is the allocation a of a Box.                                           *)
(***************************************************************************)
EXTENDS Integers, Sequences, FiniteSets, TLC

\* Bounds of the model.
MaxData == 1
MaxCalls == 2
NumAddr == 2

Loc == 1..2
Cid == 1..2
Addr == 1..NumAddr

VARIABLES typename, T, store, heap, owner, releases, cont, ret, clones, origin, count,
          via, base, ncalls, obs

vars == <<typename, T, store, heap, owner, releases, cont, ret, clones, origin, count,
          via, base, ncalls, obs>>

-----------------------------------------------------------------------------
\* The four enums and the axes they differ on.

TypeNames == {"RefOrOwned", "RefMutOrOwned", "RefOrBox", "RefMutOrBox"}
Inline == {"RefOrOwned", "RefMutOrOwned"}
Boxed == {"RefOrBox", "RefMutOrBox"}
Mutable == {"RefMutOrOwned", "RefMutOrBox"}

\* What ref_or_owned_impls!($typename) generates.
ref_or_owned_impls ==
    {"Default", "Deref", "From<T>", "into_owned", "AsRef", "Borrow",
     "PartialEq", "Eq", "PartialOrd", "Ord", "Hash", "Display"}

\* What ref_or_box_impls!($typename) generates; into_owned is behind
\* #[cfg(feature = "trait-clone")].
ref_or_box_impls(feats) ==
    {"Deref", "From<Box<T>>", "AsRef", "Borrow", "PartialEq", "PartialOrd", "Display"}
        \cup (IF "trait-clone" \in feats THEN {"into_owned"} ELSE {})

\* The impls written out by hand next to each enum.
own_impls(t) ==
    IF t \in Mutable THEN {"From<&mut T>", "DerefMut", "AsMut", "BorrowMut"}
                     ELSE {"From<&T>"}

\* The build: the crate's features that are switched on.
features == {"trait-clone"}

Impls(t, feats) ==
    own_impls(t) \cup (IF t \in Inline THEN ref_or_owned_impls ELSE ref_or_box_impls(feats))

Has(trait) == trait \in Impls(typename, features)

\* The payload types of the test module and the traits each implements.
\* ClonableStruct stands for any T: Clone; the model gives it a data byte, so
\* that a clone of the wrong value would show.
PayloadTypes == {"Implementor", "Bean", "ClonableStruct"}

T_impls(t) ==
    CASE t = "Implementor" -> {"Default", "MyTrait"}
      [] t = "Bean" -> {"Default", "PartialEq", "Eq", "PartialOrd", "Ord", "Hash", "Display"}
      [] t = "ClonableStruct" -> {"Default", "Clone", "DynClone"}

\* The bound `T: trait` of an impl.
Bound(trait) == trait \in T_impls(T)

-----------------------------------------------------------------------------
\* A payload value: Implementor's two counters and Bean's data byte.

Payload == [data : 0..MaxData, calls : 0..MaxCalls, mut_calls : 0..MaxCalls]

Moved == [state |-> "moved"]
Free == [state |-> "free"]

\* Implementor::default() zeroes the counters; Bean::default() draws its data
\* with fastrand::u8(..u8::MAX).
T_default(d) == [data |-> d, calls |-> 0, mut_calls |-> 0]

Defaults == IF T = "Bean" THEN 0..MaxData ELSE {0}

\* #[derive(Clone)]: a field-by-field copy.
T_clone(v) == [data |-> v.data, calls |-> v.calls, mut_calls |-> v.mut_calls]

\* MyTrait::do_something(&self) and MyTrait::do_mutable(&mut self).
do_something(v) == [v EXCEPT !.calls = v.calls + 1]
do_mutable(v) == [v EXCEPT !.mut_calls = v.mut_calls + 1]

-----------------------------------------------------------------------------
\* The container's states.

Unborn == [case |-> "Unborn"]
\* An into_owned that leaves the container behind, switched to Owned.
Consumed_switched == [case |-> "Owned", switched |-> TRUE]

Consumed == [case |-> "Consumed"]
Dropped == [case |-> "Dropped"]

Live(c) == cont[c].case \in {"Borrowed", "Owned"}

\* A constructor's result: the container, and the number of calls of T::clone
\* its body makes.
Made(self) == [self |-> self, cloned |-> 0]

\* A From<&'t T> that keeps a copy of the referent instead of the reference.
From_ref_owned_copy(value) ==
    [self |-> [case |-> "Owned", value |-> T_clone(store[value])], cloned |-> 1]

\* From<&'t T> for RefOrOwned: Self::Borrowed(value).
From_ref_owned(value) == Made([case |-> "Borrowed", ref |-> value])

\* A From<&'t mut T> that keeps a copy of the referent instead of the reference.
From_ref_mut_owned_copy(value) ==
    [self |-> [case |-> "Owned", value |-> T_clone(store[value])], cloned |-> 1]

\* From<&'t mut T> for RefMutOrOwned: Self::Borrowed(value).
From_ref_mut_owned(value) == Made([case |-> "Borrowed", ref |-> value])

\* From<&'t T> for RefOrBox: Self::Borrowed(value).
From_ref_box(value) == Made([case |-> "Borrowed", ref |-> value])

\* From<&'t mut T> for RefMutOrBox: Self::Borrowed(value).
From_ref_mut_box(value) == Made([case |-> "Borrowed", ref |-> value])

\* A From<T> that stores a clone of its argument.
From_value_clone(value) ==
    [self |-> [case |-> "Owned", value |-> T_clone(value)], cloned |-> 1]

\* From<T> of ref_or_owned_impls!: Self::Owned(value), the value stored inline.
From_value(value) == Made([case |-> "Owned", value |-> value])

\* From<Box<T>> of ref_or_box_impls!: Self::Owned(value), the box itself.
From_box(value) == Made([case |-> "Owned", box |-> value])

\* A Default that ignores T::default() and stores the zero value.
default_zero(d) == Made([case |-> "Owned", value |-> T_default(0)])

\* Default::default() of ref_or_owned_impls!: Self::Owned(T::default()), where
\* T::default() returned d.
default(d) == Made([case |-> "Owned", value |-> d])

\* The payload a container stands for, read off the enum's two cases.
Held(c) ==
    CASE cont[c].case = "Borrowed" -> store[cont[c].ref]
      [] cont[c].case = "Owned" /\ typename \in Inline -> cont[c].value
      [] cont[c].case = "Owned" /\ typename \in Boxed -> heap[cont[c].box]

ReadAt(p) ==
    CASE p[1] = "loc" -> store[p[2]]
      [] p[1] = "own" -> cont[p[2]].value
      [] p[1] = "heap" -> heap[p[2]]

\* Deref::deref of ref_or_owned_impls!.
deref_owned(c) ==
    IF cont[c].case = "Borrowed" THEN <<"loc", cont[c].ref>> ELSE <<"own", c>>

\* A deref whose Borrowed arm yields the other variable of the client.
deref_box_other(c) ==
    IF cont[c].case = "Borrowed" THEN <<"loc", 3 - cont[c].ref>> ELSE <<"heap", cont[c].box>>

\* Deref::deref of ref_or_box_impls!: owned_box.deref().
deref_box(c) ==
    IF cont[c].case = "Borrowed" THEN <<"loc", cont[c].ref>> ELSE <<"heap", cont[c].box>>

deref(c) == IF typename \in Inline THEN deref_owned(c) ELSE deref_box(c)

\* DerefMut::deref_mut of RefMutOrOwned.
deref_mut_owned(c) ==
    IF cont[c].case = "Borrowed" THEN <<"loc", cont[c].ref>> ELSE <<"own", c>>

\* A deref_mut whose Owned arm strays to a variable of the client.
deref_mut_box_stray(c) ==
    IF cont[c].case = "Borrowed" THEN <<"loc", cont[c].ref>>
    ELSE IF \A x \in Loc : store[x] = Moved THEN <<"heap", cont[c].box>>
    ELSE <<"loc", CHOOSE x \in Loc : store[x] # Moved>>

\* DerefMut::deref_mut of RefMutOrBox: owned_box.deref_mut().
deref_mut_box(c) ==
    IF cont[c].case = "Borrowed" THEN <<"loc", cont[c].ref>> ELSE <<"heap", cont[c].box>>

deref_mut(c) == IF typename \in Inline THEN deref_mut_owned(c) ELSE deref_mut_box(c)

\* An as_ref whose Borrowed arm yields the other variable of the client.
as_ref_other(c) ==
    IF cont[c].case = "Borrowed" THEN <<"loc", 3 - cont[c].ref>> ELSE deref(c)

\* AsRef::as_ref of both macros: self.deref().
as_ref(c) == deref(c)

\* Borrow::borrow of both macros: self.deref().
borrow(c) == deref(c)

\* AsMut::as_mut and BorrowMut::borrow_mut of RefMutOrOwned: self.deref_mut().
as_mut_owned(c) == deref_mut_owned(c)
borrow_mut_owned(c) == deref_mut_owned(c)

\* AsMut::as_mut and BorrowMut::borrow_mut of RefMutOrBox: self.deref_mut().
as_mut_box(c) == deref_mut_box(c)
borrow_mut_box(c) == deref_mut_box(c)

as_mut(c) == IF typename \in Inline THEN as_mut_owned(c) ELSE as_mut_box(c)
borrow_mut(c) == IF typename \in Inline THEN borrow_mut_owned(c) ELSE borrow_mut_box(c)

-----------------------------------------------------------------------------
\* The payload's own equality, ordering, hashing and display (Bean).

\* #[derive(PartialEq)] on Bean { data }, and PartialEq for dyn BeanTrait.
T_eq(a, b) == a.data = b.data
T_ne(a, b) == a.data # b.data

\* #[derive(Ord)] on Bean { data }: u8::cmp.
T_cmp(a, b) ==
    IF a.data < b.data THEN "Less" ELSE IF a.data > b.data THEN "Greater" ELSE "Equal"

\* #[derive(PartialOrd)], and PartialOrd for dyn BeanTrait: Option<Ordering>,
\* a sequence of length one for Some and zero for None.
T_partial_cmp(a, b) == <<T_cmp(a, b)>>

\* #[derive(Hash)] on Bean { data }: state.write_u8(data). A hasher is the
\* sequence of bytes written to it.
T_hash(v, state) == Append(state, v.data)

Digit(n) == <<"0", "1", "2", "3", "4", "5", "6", "7", "8", "9">>[n + 1]

RECURSIVE Decimal(_)
Decimal(n) == IF n < 10 THEN <<Digit(n)>> ELSE Append(Decimal(n \div 10), Digit(n % 10))

\* Display for Bean: f.write_str(&format!("Bean: {:?}", self.data)). A
\* formatter is the sequence of pieces written to it.
T_fmt(v, f) == (f \o <<"Bean: ">>) \o Decimal(v.data)

-----------------------------------------------------------------------------
\* The forwarding impls of the two macros.

\* An eq that also compares the cases.
eq_case(self, other) ==
    /\ cont[self].case = cont[other].case
    /\ T_eq(ReadAt(deref(self)), ReadAt(deref(other)))

eq(self, other) == T_eq(ReadAt(deref(self)), ReadAt(deref(other)))
ne(self, other) == T_ne(ReadAt(deref(self)), ReadAt(deref(other)))
\* A partial_cmp with its operands the wrong way round.
partial_cmp_swapped(self, other) == T_partial_cmp(ReadAt(deref(other)), ReadAt(deref(self)))

partial_cmp(self, other) == T_partial_cmp(ReadAt(deref(self)), ReadAt(deref(other)))
cmp(self, other) == T_cmp(ReadAt(deref(self)), ReadAt(deref(other)))
\* A hash that feeds the discriminant before the payload.
hash_tagged(self, state) ==
    T_hash(ReadAt(deref(self)), Append(state, IF cont[self].case = "Borrowed" THEN 0 ELSE 1))

hash(self, state) == T_hash(ReadAt(deref(self)), state)
fmt(self, f) == T_fmt(ReadAt(deref(self)), f)

\* An into_owned that clones in the Owned case too.
into_owned_owned_clones(c) ==
    IF cont[c].case = "Borrowed"
    THEN [value |-> T_clone(store[cont[c].ref]), cloned |-> 1]
    ELSE [value |-> T_clone(cont[c].value), cloned |-> 1]

\* into_owned of ref_or_owned_impls!: the value handed back and the number of
\* calls of T::clone it took.
into_owned_owned(c) ==
    IF cont[c].case = "Borrowed"
    THEN [value |-> T_clone(store[cont[c].ref]), cloned |-> 1]
    ELSE [value |-> cont[c].value, cloned |-> 0]

\* An into_owned that clones the referent twice.
into_owned_box_twice(c, a) ==
    IF cont[c].case = "Borrowed"
    THEN [box |-> a, fresh |-> TRUE, value |-> T_clone(T_clone(store[cont[c].ref])), cloned |-> 2]
    ELSE [box |-> cont[c].box, fresh |-> FALSE, value |-> heap[cont[c].box], cloned |-> 0]

\* into_owned of ref_or_box_impls!: the box handed back; dyn_clone::clone_box
\* puts the clone in a new allocation, here a.
into_owned_box(c, a) ==
    IF cont[c].case = "Borrowed"
    THEN [box |-> a, fresh |-> TRUE, value |-> T_clone(store[cont[c].ref]), cloned |-> 1]
    ELSE [box |-> cont[c].box, fresh |-> FALSE, value |-> heap[cont[c].box], cloned |-> 0]

\* A drop glue that forgets the box.
drop_glue_leak(c) == {}

\* The drop glue of the enum: the allocations released when container c is
\* dropped. Only Owned(Box<T>) owns one; a reference owns nothing.
drop_glue(c) ==
    IF typename \in Boxed /\ cont[c].case = "Owned" THEN {cont[c].box} ELSE {}

-----------------------------------------------------------------------------
\* What the borrow checker lets the client do with its variable x.

\* A borrow checker that tracks no borrow.
Borrowers_none(x) == {}

\* The containers whose Borrowed case holds a reference to x: the borrow of x
\* lasts as long as they do.
Borrowers(x) == {c \in Cid : cont[c].case = "Borrowed" /\ cont[c].ref = x}

CanShare(x) == store[x] # Moved /\ (typename \in Mutable => Borrowers(x) = {})
CanTake(x) == store[x] # Moved /\ Borrowers(x) = {}

\* The allocator hands out the lowest address never used.
Fresh(a) == owner[a] = "unallocated" /\ \A b \in Addr : b < a => owner[b] # "unallocated"

\* The client declares its containers in order.
Declarable(c) == cont[c] = Unborn /\ \A d \in Cid : d < c => cont[d] # Unborn

NoObs == [op |-> "none"]
ZeroCount == [n |-> 0, m |-> 0, k |-> 0, j |-> 0]
ZeroVia == [m |-> 0, k |-> 0]
NoBase == [state |-> "none"]

Init ==
    /\ typename \in TypeNames
    /\ T \in PayloadTypes
    /\ store \in [Loc -> {T_default(d) : d \in IF T = "Implementor" THEN {0} ELSE 0..MaxData}]
    /\ heap = [a \in Addr |-> Free]
    /\ owner = [a \in Addr |-> "unallocated"]
    /\ releases = [a \in Addr |-> 0]
    /\ cont = [c \in Cid |-> Unborn]
    /\ ret = [c \in Cid |-> [kind |-> "none"]]
    /\ clones = 0
    /\ origin = [c \in Cid |-> 0]
    /\ count = [x \in Loc |-> ZeroCount]
    /\ via = [c \in Cid |-> ZeroVia]
    /\ base = [c \in Cid |-> NoBase]
    /\ ncalls = 0
    /\ obs = NoObs

-----------------------------------------------------------------------------
\* Construction.

\* RefOrOwned::from(&x), RefOrBox::from(&x).
FromRef(c, x) ==
    /\ Has("From<&T>")
    /\ Declarable(c)
    /\ CanShare(x)
    /\ LET r == IF typename = "RefOrOwned" THEN From_ref_owned(x) ELSE From_ref_box(x) IN
         /\ cont' = [cont EXCEPT ![c] = r.self]
         /\ clones' = clones + r.cloned
    /\ origin' = [origin EXCEPT ![c] = x]
    /\ obs' = [op |-> "from_ref", c |-> c, arg |-> x, pre |-> store[x], clones0 |-> clones]
    /\ UNCHANGED <<typename, T, via, base, releases, store, heap, owner, ret, count, ncalls>>

\* RefMutOrOwned::from(&mut x), RefMutOrBox::from(&mut x).
FromRefMut(c, x) ==
    /\ Has("From<&mut T>")
    /\ Declarable(c)
    /\ CanTake(x)
    /\ LET r == IF typename = "RefMutOrOwned" THEN From_ref_mut_owned(x)
                                               ELSE From_ref_mut_box(x) IN
         /\ cont' = [cont EXCEPT ![c] = r.self]
         /\ clones' = clones + r.cloned
    /\ origin' = [origin EXCEPT ![c] = x]
    /\ obs' = [op |-> "from_ref_mut", c |-> c, arg |-> x, pre |-> store[x], clones0 |-> clones]
    /\ UNCHANGED <<typename, T, via, base, releases, store, heap, owner, ret, count, ncalls>>

\* RefOrOwned::from(x), RefMutOrOwned::from(x): x is moved into the container.
FromValue(c, x) ==
    /\ Has("From<T>")
    /\ Declarable(c)
    /\ CanTake(x)
    /\ LET r == From_value(store[x]) IN
         /\ cont' = [cont EXCEPT ![c] = r.self]
         /\ clones' = clones + r.cloned
    /\ store' = [store EXCEPT ![x] = Moved]
    /\ base' = [base EXCEPT ![c] = store[x]]
    /\ obs' = [op |-> "from_value", c |-> c, arg |-> store[x], clones0 |-> clones]
    /\ UNCHANGED <<typename, T, via, releases, heap, owner, ret, origin, count, ncalls>>

\* Box::new(x): the client moves x to the heap and holds the box.
BoxNew(x, a) ==
    /\ typename \in Boxed
    /\ CanTake(x)
    /\ Fresh(a)
    /\ heap' = [heap EXCEPT ![a] = store[x]]
    /\ owner' = [owner EXCEPT ![a] = "client"]
    /\ store' = [store EXCEPT ![x] = Moved]
    /\ obs' = NoObs
    /\ UNCHANGED <<typename, T, via, base, releases, cont, ret, clones, origin, count, ncalls>>

\* RefOrBox::from(b), RefMutOrBox::from(b): the box is moved into the container.
FromBox(c, a) ==
    /\ Has("From<Box<T>>")
    /\ Declarable(c)
    /\ owner[a] = "client"
    /\ LET r == From_box(a) IN
         /\ cont' = [cont EXCEPT ![c] = r.self]
         /\ clones' = clones + r.cloned
    /\ owner' = [owner EXCEPT ![a] = "container"]
    /\ base' = [base EXCEPT ![c] = heap[a]]
    /\ obs' = [op |-> "from_box", c |-> c, arg |-> a, pre |-> heap[a], clones0 |-> clones]
    /\ UNCHANGED <<typename, T, via, releases, store, heap, ret, origin, count, ncalls>>

\* RefOrOwned::default(), RefMutOrOwned::default().
Default(c) ==
    /\ Has("Default") /\ Bound("Default")
    /\ Declarable(c)
    /\ \E d \in Defaults :
         LET r == default(T_default(d)) IN
         /\ cont' = [cont EXCEPT ![c] = r.self]
         /\ clones' = clones + r.cloned
         /\ obs' = [op |-> "default", c |-> c, arg |-> T_default(d), clones0 |-> clones]
         /\ base' = [base EXCEPT ![c] = T_default(d)]
    /\ UNCHANGED <<typename, T, via, releases, store, heap, owner, ret, origin, count, ncalls>>

-----------------------------------------------------------------------------
\* Access through the container and through the original.

WriteAt(p, v) ==
    /\ store' = IF p[1] = "loc" THEN [store EXCEPT ![p[2]] = v] ELSE store
    /\ cont' = IF p[1] = "own" THEN [cont EXCEPT ![p[2]].value = v] ELSE cont
    /\ heap' = IF p[1] = "heap" THEN [heap EXCEPT ![p[2]] = v] ELSE heap

\* A call through a container made from a reference to x is a call on x.
Bump(c, field) ==
    IF origin[c] # 0 THEN [count EXCEPT ![origin[c]][field] = @ + 1] ELSE count

\* An observation that duplicates the payload on the way.
Observe_cloning(o) ==
    /\ obs' = o
    /\ clones' = clones + 1
    /\ UNCHANGED <<typename, T, via, base, releases, store, heap, owner, cont, ret, origin,
                   count, ncalls>>

\* An operation on &self whose payload operation is on &T without interior
\* mutability: the client sees its result and nothing else moves.
Observe(o) ==
    /\ obs' = o
    /\ UNCHANGED <<typename, T, via, base, releases, store, heap, owner, cont, ret, clones,
                   origin, count, ncalls>>

\* let r: &T = container.deref();
Deref(c) ==
    /\ Live(c)
    /\ Observe([op |-> "deref", c |-> c, out |-> ReadAt(deref(c))])

\* container.do_something(): auto-deref, then the shared method.
DoSomething(c) ==
    /\ Bound("MyTrait")
    /\ Live(c)
    /\ LET p == deref(c) IN
         /\ ncalls < MaxCalls
         /\ WriteAt(p, do_something(ReadAt(p)))
         /\ count' = Bump(c, "m")
    /\ via' = [via EXCEPT ![c].m = @ + 1]
    /\ ncalls' = ncalls + 1
    /\ obs' = NoObs
    /\ UNCHANGED <<typename, T, base, releases, owner, ret, clones, origin>>

\* container.do_mutable(): auto-deref-mut, then the exclusive method.
DoMutable(c) ==
    /\ Has("DerefMut") /\ Bound("MyTrait")
    /\ Live(c)
    /\ LET p == deref_mut(c) IN
         /\ ncalls < MaxCalls
         /\ WriteAt(p, do_mutable(ReadAt(p)))
         /\ count' = Bump(c, "k")
    /\ via' = [via EXCEPT ![c].k = @ + 1]
    /\ ncalls' = ncalls + 1
    /\ obs' = NoObs
    /\ UNCHANGED <<typename, T, base, releases, owner, ret, clones, origin>>

\* let r: &T = container.as_ref();
AsRef(c) ==
    /\ Has("AsRef") /\ Live(c)
    /\ Observe([op |-> "as_ref", c |-> c, place |-> as_ref(c), out |-> ReadAt(as_ref(c))])

\* let r: &T = container.borrow();
Borrow(c) ==
    /\ Has("Borrow") /\ Live(c)
    /\ Observe([op |-> "borrow", c |-> c, place |-> borrow(c), out |-> ReadAt(borrow(c))])

\* A call of the exclusive method on the &mut T that entry point p yields.
CallMut(c, entry, p) ==
    /\ Bound("MyTrait")
    /\ Live(c)
    /\ ncalls < MaxCalls
    /\ WriteAt(p, do_mutable(ReadAt(p)))
    /\ count' = Bump(c, "k")
    /\ via' = [via EXCEPT ![c].k = @ + 1]
    /\ ncalls' = ncalls + 1
    /\ obs' = [op |-> entry, c |-> c, place |-> p, pre |-> Held(c)]
    /\ UNCHANGED <<typename, T, base, releases, owner, ret, clones, origin>>

\* container.as_mut().do_mutable().
AsMut(c) == Has("AsMut") /\ CallMut(c, "as_mut", as_mut(c))

\* container.borrow_mut().do_mutable().
BorrowMut(c) == Has("BorrowMut") /\ CallMut(c, "borrow_mut", borrow_mut(c))

\* x.do_something() on the client's own variable.
DoSomethingOriginal(x) ==
    /\ Bound("MyTrait")
    /\ CanShare(x)
    /\ ncalls < MaxCalls
    /\ store' = [store EXCEPT ![x] = do_something(store[x])]
    /\ count' = [count EXCEPT ![x].n = @ + 1]
    /\ ncalls' = ncalls + 1
    /\ obs' = NoObs
    /\ UNCHANGED <<typename, T, via, base, releases, heap, owner, cont, ret, clones, origin>>

\* x.do_mutable() on the client's own variable.
DoMutableOriginal(x) ==
    /\ Bound("MyTrait")
    /\ CanTake(x)
    /\ ncalls < MaxCalls
    /\ store' = [store EXCEPT ![x] = do_mutable(store[x])]
    /\ count' = [count EXCEPT ![x].j = @ + 1]
    /\ ncalls' = ncalls + 1
    /\ obs' = NoObs
    /\ UNCHANGED <<typename, T, via, base, releases, heap, owner, cont, ret, clones, origin>>

-----------------------------------------------------------------------------
\* Equality, ordering, hashing, display.

Eq(c1, c2) ==
    /\ Has("PartialEq") /\ Bound("PartialEq") /\ Live(c1) /\ Live(c2)
    /\ Observe([op |-> "eq", c |-> c1, d |-> c2, out |-> eq(c1, c2)])

Ne(c1, c2) ==
    /\ Has("PartialEq") /\ Bound("PartialEq") /\ Live(c1) /\ Live(c2)
    /\ Observe([op |-> "ne", c |-> c1, d |-> c2, out |-> ne(c1, c2)])

PartialCmp(c1, c2) ==
    /\ Has("PartialOrd") /\ Bound("PartialOrd") /\ Live(c1) /\ Live(c2)
    /\ Observe([op |-> "partial_cmp", c |-> c1, d |-> c2, out |-> partial_cmp(c1, c2)])

Cmp(c1, c2) ==
    /\ Has("Ord") /\ Bound("Ord") /\ Live(c1) /\ Live(c2)
    /\ Observe([op |-> "cmp", c |-> c1, d |-> c2, out |-> cmp(c1, c2)])

\* eval_hash: a new hasher, then param.hash(&mut hasher).
Hash(c) ==
    /\ Has("Hash") /\ Bound("Hash") /\ Live(c)
    /\ Observe([op |-> "hash", c |-> c, out |-> hash(c, <<>>)])

\* format!("Is: {}", &container).
Fmt(c) ==
    /\ Has("Display") /\ Bound("Display") /\ Live(c)
    /\ Observe([op |-> "fmt", c |-> c, out |-> fmt(c, <<"Is: ">>)])

-----------------------------------------------------------------------------
\* The end of a container.

\* let v = container.into_owned();
IntoOwned(c) ==
    /\ Has("into_owned")
    /\ Bound(IF typename \in Inline THEN "Clone" ELSE "DynClone")
    /\ Live(c)
    /\ IF typename \in Inline
       THEN LET r == into_owned_owned(c) IN
              /\ ret' = [ret EXCEPT ![c] = [kind |-> "value", value |-> r.value]]
              /\ clones' = clones + r.cloned
              /\ obs' = [op |-> "into_owned", c |-> c, was |-> cont[c], held |-> Held(c),
                         owner0 |-> owner, clones0 |-> clones]
              /\ UNCHANGED <<heap, owner>>
       ELSE \E a \in Addr :
              LET r == into_owned_box(c, a) IN
              /\ r.fresh => Fresh(a)
              /\ ~r.fresh => a = r.box
              /\ ret' = [ret EXCEPT ![c] = [kind |-> "box", box |-> r.box]]
              /\ heap' = [heap EXCEPT ![r.box] = r.value]
              /\ owner' = [owner EXCEPT ![r.box] = "client"]
              /\ clones' = clones + r.cloned
              /\ obs' = [op |-> "into_owned", c |-> c, was |-> cont[c], held |-> Held(c),
                         owner0 |-> owner, clones0 |-> clones]
    /\ cont' = [cont EXCEPT ![c] = Consumed]
    /\ UNCHANGED <<typename, T, via, base, releases, store, origin, count, ncalls>>

\* Releasing the allocations in rel.
Release(rel) ==
    /\ heap' = [a \in Addr |-> IF a \in rel THEN Free ELSE heap[a]]
    /\ owner' = [a \in Addr |-> IF a \in rel THEN "released" ELSE owner[a]]
    /\ releases' = [a \in Addr |-> IF a \in rel THEN releases[a] + 1 ELSE releases[a]]

\* match container { Owned(value) => value, Borrowed(_) => panic!() }: the
\* payload is moved out of the Owned case; a box is opened with *value and its
\* allocation released.
TakeOwned(c) ==
    /\ Live(c)
    /\ cont[c].case = "Owned"
    /\ cont' = [cont EXCEPT ![c] = Consumed]
    /\ Release(drop_glue(c))
    /\ obs' = [op |-> "take_owned", c |-> c, was |-> cont[c], out |-> Held(c)]
    /\ UNCHANGED <<typename, T, via, base, store, ret, clones, origin, count, ncalls>>

\* The container goes out of scope: an owned box is released with it.
Drop(c) ==
    /\ Live(c)
    /\ cont' = [cont EXCEPT ![c] = Dropped]
    /\ Release(drop_glue(c))
    /\ obs' = [op |-> "drop", c |-> c, was |-> cont[c], held |-> Held(c),
               releases0 |-> releases]
    /\ UNCHANGED <<typename, T, via, base, store, ret, clones, origin, count, ncalls>>

\* A box the client holds (from Box::new or from into_owned) goes out of scope.
DropBox(a) ==
    /\ owner[a] = "client"
    /\ Release({a})
    /\ obs' = NoObs
    /\ UNCHANGED <<typename, T, via, base, store, cont, ret, clones, origin, count, ncalls>>

Next ==
    \/ \E c \in Cid, x \in Loc : FromRef(c, x)
    \/ \E c \in Cid, x \in Loc : FromRefMut(c, x)
    \/ \E c \in Cid, x \in Loc : FromValue(c, x)
    \/ \E x \in Loc, a \in Addr : BoxNew(x, a)
    \/ \E c \in Cid, a \in Addr : FromBox(c, a)
    \/ \E c \in Cid : Default(c)
    \/ \E c \in Cid : Deref(c)
    \/ \E c \in Cid : DoSomething(c)
    \/ \E c \in Cid : DoMutable(c)
    \/ \E c \in Cid : AsRef(c)
    \/ \E c \in Cid : Borrow(c)
    \/ \E c \in Cid : AsMut(c)
    \/ \E c \in Cid : BorrowMut(c)
    \/ \E x \in Loc : DoSomethingOriginal(x)
    \/ \E x \in Loc : DoMutableOriginal(x)
    \/ \E c1 \in Cid, c2 \in Cid : Eq(c1, c2)
    \/ \E c1 \in Cid, c2 \in Cid : Ne(c1, c2)
    \/ \E c1 \in Cid, c2 \in Cid : PartialCmp(c1, c2)
    \/ \E c1 \in Cid, c2 \in Cid : Cmp(c1, c2)
    \/ \E c \in Cid : Hash(c)
    \/ \E c \in Cid : Fmt(c)
    \/ \E c \in Cid : IntoOwned(c)
    \/ \E c \in Cid : TakeOwned(c)
    \/ \E c \in Cid : Drop(c)
    \/ \E a \in Addr : DropBox(a)

Spec == Init /\ [][Next]_vars

-----------------------------------------------------------------------------
\* Properties.

\* C1: on each of the four types transparent read access always succeeds and
\* yields the payload itself: the referent of a Borrowed container, the held
\* value of an Owned one.
C1_DerefYieldsPayload ==
    /\ \A c \in Cid : Live(c) => Held(c) \in Payload /\ ReadAt(deref(c)) \in Payload
    /\ obs.op = "deref" => obs.out = Held(obs.c)

C1_Witness ==
    /\ obs.op = "deref"
    /\ cont[obs.c].case = "Borrowed"
    /\ typename = "RefMutOrBox"
    /\ obs.out.mut_calls = 1

\* The hash and the total order of a container, where its type has them.
HashOf(c) == IF Has("Hash") /\ Bound("Hash") THEN <<hash(c, <<>>)>> ELSE <<>>
CmpOf(c, d) == IF Has("Ord") /\ Bound("Ord") THEN <<cmp(c, d)>> ELSE <<>>

SameValue(c, d) ==
    /\ Live(c) /\ Live(d)
    /\ cont[c].case = "Borrowed" /\ cont[d].case = "Owned"
    /\ Held(c) = Held(d)

\* C2: case transparency: a Borrowed and an Owned container of the same value
\* give the same results from read access, equality, ordering, hashing and
\* display, whatever they are compared with.
C2_CaseTransparency ==
    \A c, d \in Cid : SameValue(c, d) =>
        /\ ReadAt(deref(c)) = ReadAt(deref(d))
        /\ T = "Bean" =>
             /\ HashOf(c) = HashOf(d)
             /\ fmt(c, <<>>) = fmt(d, <<>>)
             /\ \A e \in Cid : Live(e) =>
                  /\ eq(c, e) = eq(d, e) /\ eq(e, c) = eq(e, d)
                  /\ ne(c, e) = ne(d, e) /\ ne(e, c) = ne(e, d)
                  /\ partial_cmp(c, e) = partial_cmp(d, e)
                  /\ partial_cmp(e, c) = partial_cmp(e, d)
                  /\ CmpOf(c, e) = CmpOf(d, e) /\ CmpOf(e, c) = CmpOf(e, d)

C2_Witness ==
    /\ T = "Bean"
    /\ obs.op = "eq"
    /\ SameValue(obs.c, obs.d)
    /\ obs.out = TRUE

\* C3: no hidden copy in the mutable variants: after k writes through a
\* container made from &mut x and j writes through x itself, x's exclusive
\* counter is k + j, and the container reads the same.
C3_MutationsShared ==
    typename \in Mutable =>
        \A x \in Loc :
            /\ store[x] # Moved => store[x].mut_calls = count[x].k + count[x].j
            /\ \A c \in Cid : Live(c) /\ origin[c] = x =>
                 ReadAt(deref(c)).mut_calls = count[x].k + count[x].j

C3_Witness ==
    /\ typename = "RefMutOrBox"
    /\ \E x \in Loc : count[x].k = 1 /\ count[x].j = 1 /\ store[x] # Moved

\* C4: an immutable container made from &x and x itself are one payload: after
\* n shared calls through x and m through the container the call counter of x
\* is n + m, and its exclusive counter is 0 as long as nothing else wrote.
C4_SharedCallsCounted ==
    typename \notin Mutable =>
        \A x \in Loc : store[x] # Moved =>
            /\ store[x].calls = count[x].n + count[x].m
            /\ count[x].j = 0 => store[x].mut_calls = 0
            /\ \A c \in Cid : Live(c) /\ origin[c] = x => ReadAt(deref(c)) = store[x]

C4_Witness ==
    /\ typename = "RefOrOwned"
    /\ \E x \in Loc :
         /\ count[x].n = 1 /\ count[x].m = 1
         /\ store[x] # Moved /\ store[x].calls = 2 /\ store[x].mut_calls = 0

\* C5: into_owned of an Owned container hands back the very value, or the very
\* box, the container held and never calls the payload's clone.
C5_IntoOwnedMoves ==
    obs.op = "into_owned" /\ obs.was.case = "Owned" =>
        /\ clones = obs.clones0
        /\ typename \in Inline =>
             ret[obs.c] = [kind |-> "value", value |-> obs.was.value]
        /\ typename \in Boxed =>
             /\ ret[obs.c] = [kind |-> "box", box |-> obs.was.box]
             /\ heap[obs.was.box] = obs.held
             /\ owner[obs.was.box] = "client"

C5_Witness ==
    /\ obs.op = "into_owned"
    /\ obs.was.case = "Owned"
    /\ typename = "RefOrBox"
    /\ obs.held.data = MaxData

\* C6: into_owned of a Borrowed container calls the payload's clone exactly
\* once, hands back the duplicate of the referent and leaves the referent where
\* it was, with the data it had.
C6_IntoOwnedClonesOnce ==
    obs.op = "into_owned" /\ obs.was.case = "Borrowed" =>
        /\ clones = obs.clones0 + 1
        /\ store[obs.was.ref] = obs.held
        /\ typename \in Inline => ret[obs.c] = [kind |-> "value", value |-> obs.held]
        /\ typename \in Boxed =>
             /\ ret[obs.c].kind = "box"
             /\ obs.owner0[ret[obs.c].box] = "unallocated"
             /\ owner[ret[obs.c].box] = "client"
             /\ heap[ret[obs.c].box] = obs.held

C6_Witness ==
    /\ obs.op = "into_owned"
    /\ obs.was.case = "Borrowed"
    /\ typename = "RefMutOrBox"
    /\ obs.held.data = MaxData
    /\ clones = 2

Expected(a, b) == IF a < b THEN "Less" ELSE IF a > b THEN "Greater" ELSE "Equal"

\* C7: ordering and equality follow the payloads in every mix of cases: the
\* container of the smaller value is Less and not equal, the reverse is
\* Greater, a container against itself is Equal and equal, and on the inline
\* types cmp agrees with partial_cmp.
C7_OrderingConsistent ==
    /\ obs.op \in {"eq", "ne", "partial_cmp", "cmp"} =>
         LET a == Held(obs.c).data
             b == Held(obs.d).data
         IN  /\ obs.op = "eq" => obs.out = (a = b)
             /\ obs.op = "ne" => obs.out = (a # b)
             /\ obs.op = "partial_cmp" => obs.out = <<Expected(a, b)>>
             /\ obs.op = "cmp" => obs.out = Expected(a, b) /\ typename \in Inline
             /\ obs.c = obs.d => a = b
    /\ T = "Bean" /\ typename \in Inline =>
         \A c, d \in Cid : Live(c) /\ Live(d) => partial_cmp(c, d) = <<cmp(c, d)>>

C7_Witness ==
    /\ obs.op = "partial_cmp"
    /\ obs.out = <<"Less">>
    /\ cont[obs.c].case = "Borrowed"
    /\ cont[obs.d].case = "Owned"
    /\ typename = "RefMutOrBox"

\* C8 as stated: every one of the four types hashes, and a container's hash is
\* its payload's.
C8_HashOnAllFour ==
    \A c \in Cid : Live(c) /\ Bound("Hash") => HashOf(c) = <<T_hash(Held(c), <<>>)>>

\* C8, amended: the two inline types hash by feeding the hasher what the
\* payload feeds it, Borrowed or Owned; RefOrBox and RefMutOrBox have no Hash.
C8_HashOnInline ==
    /\ obs.op = "hash" => typename \in Inline /\ obs.out = T_hash(Held(obs.c), <<>>)
    /\ \A c \in Cid : Live(c) /\ Bound("Hash") =>
         HashOf(c) = IF typename \in Inline THEN <<T_hash(Held(c), <<>>)>> ELSE <<>>

C8_Witness ==
    /\ obs.op = "hash"
    /\ cont[obs.c].case = "Borrowed"
    /\ typename = "RefMutOrOwned"
    /\ obs.out = <<MaxData>>

\* C9: construction picks the case from its argument and never clones: a
\* reference gives Borrowed of that reference, a value or a box gives Owned of
\* that value or box.
C9_ConstructionSelectsCase ==
    /\ obs.op \in {"from_ref", "from_ref_mut"} =>
         /\ cont[obs.c] = [case |-> "Borrowed", ref |-> obs.arg]
         /\ store[obs.arg] = obs.pre
         /\ clones = obs.clones0
    /\ obs.op = "from_value" =>
         /\ cont[obs.c] = [case |-> "Owned", value |-> obs.arg]
         /\ clones = obs.clones0
    /\ obs.op = "from_box" =>
         /\ cont[obs.c] = [case |-> "Owned", box |-> obs.arg]
         /\ heap[obs.arg] = obs.pre
         /\ clones = obs.clones0

C9_Witness ==
    /\ obs.op = "from_value"
    /\ typename = "RefMutOrOwned"
    /\ obs.arg.data = MaxData
    /\ obs.clones0 = 1

\* C10: default() of an inline type is Owned of the payload's default value;
\* the two box types have no default().
C10_DefaultIsOwned ==
    /\ obs.op = "default" =>
         /\ typename \in Inline
         /\ cont[obs.c] = [case |-> "Owned", value |-> obs.arg]
         /\ obs.arg \in {T_default(d) : d \in Defaults}
    /\ typename \in Boxed => ~Has("Default")

C10_Witness ==
    /\ obs.op = "default"
    /\ typename = "RefMutOrOwned"
    /\ T = "Bean"
    /\ cont[obs.c].value.data = MaxData

Cases == {"Unborn", "Borrowed", "Owned", "Consumed", "Dropped"}

\* C11: a container is in exactly one case, and its case never changes while
\* it lives: no operation turns Borrowed into Owned or Owned into Borrowed,
\* and into_owned ends the container instead of switching it.
C11_CaseFixed ==
    /\ [](\A c \in Cid : cont[c].case \in Cases)
    /\ [][\A c \in Cid :
            /\ Live(c) /\ cont'[c].case \in {"Borrowed", "Owned"} =>
                 cont'[c].case = cont[c].case
            /\ Live(c) /\ obs'.op = "into_owned" /\ obs'.c = c => cont'[c] = Consumed
            /\ ~Live(c) /\ cont[c] # Unborn => cont'[c] = cont[c]]_vars

C11_Witness ==
    /\ obs.op = "into_owned"
    /\ obs.was.case = "Borrowed"
    /\ cont[obs.c] = Consumed
    /\ \E d \in Cid : cont[d].case = "Owned" /\ typename = "RefMutOrOwned"

Holders(a) == {c \in Cid : typename \in Boxed /\ cont[c].case = "Owned" /\ cont[c].box = a}

\* C12: an owned box is released exactly once, by its last owner: dropping a
\* RefOrBox / RefMutOrBox in the Owned case releases its allocation then and
\* there, into_owned hands the allocation on unreleased to the caller, nothing
\* is released twice or left without an owner; dropping a Borrowed container
\* releases nothing and leaves the referent as it was.
C12_ReleasedOnce ==
    /\ \A a \in Addr :
         /\ releases[a] <= 1
         /\ releases[a] = 1 <=> owner[a] = "released"
         /\ heap[a] = Free <=> owner[a] \in {"unallocated", "released"}
         /\ owner[a] = "container" <=> Holders(a) # {}
         /\ Cardinality(Holders(a)) <= 1
    /\ obs.op = "drop" /\ obs.was.case = "Owned" /\ typename \in Boxed =>
         /\ obs.releases0[obs.was.box] = 0
         /\ releases = [obs.releases0 EXCEPT ![obs.was.box] = 1]
    /\ obs.op = "drop" /\ obs.was.case = "Borrowed" =>
         /\ releases = obs.releases0
         /\ store[obs.was.ref] = obs.held
    /\ obs.op = "into_owned" /\ obs.was.case = "Owned" /\ typename \in Boxed =>
         /\ releases[obs.was.box] = 0
         /\ owner[obs.was.box] = "client"
    /\ (\A c \in Cid : ~Live(c)) /\ (\A a \in Addr : owner[a] # "client") =>
         \A a \in Addr : owner[a] # "unallocated" => releases[a] = 1

C12_Witness ==
    /\ obs.op = "drop"
    /\ obs.was.case = "Owned"
    /\ typename = "RefMutOrBox"
    /\ releases[obs.was.box] = 1
    /\ obs.held.mut_calls = 1

\* C13: the mutable variants have exclusive access: while a RefMutOrOwned or
\* RefMutOrBox container that borrows x lives, no step reads, writes or moves x
\* through the original or makes a second container from x; x changes only by
\* a call through that container, and calls on the original come after the
\* container's end.
C13_ExclusiveAccess ==
    [][\A c \in Cid :
         typename \in Mutable /\ cont[c].case = "Borrowed" =>
           LET x == cont[c].ref IN
           /\ count'[x].n = count[x].n
           /\ count'[x].j = count[x].j
           /\ store[x] # Moved /\ store'[x] # Moved
           /\ store'[x] # store[x] =>
                count'[x].m + count'[x].k = count[x].m + count[x].k + 1
           /\ \A d \in Cid :
                cont'[d].case = "Borrowed" /\ cont'[d].ref = x => d = c]_vars

C13_Witness ==
    /\ typename = "RefMutOrOwned"
    /\ \E c \in Cid :
         /\ cont[c] = Dropped
         /\ origin[c] # 0
         /\ count[origin[c]].k = 1
         /\ count[origin[c]].n = 1
         /\ store[origin[c]] = [data |-> 0, calls |-> 1, mut_calls |-> 1]

ReadOps == {"deref", "eq", "ne", "partial_cmp", "cmp", "hash", "fmt"}

\* C14: reading has no effect: a step that is a deref, an equality or ordering
\* comparison, a hash or a display leaves every container's case and held
\* value, the referenced data and the boxes as they were, and clones nothing.
C14_ReadsHaveNoEffect ==
    [][obs'.op \in ReadOps =>
         /\ \A c \in Cid : cont'[c] = cont[c] /\ (Live(c) => Held(c)' = Held(c))
         /\ store' = store
         /\ heap' = heap
         /\ owner' = owner
         /\ clones' = clones]_vars

C14_Witness ==
    /\ obs.op = "cmp"
    /\ cont[obs.c].case = "Borrowed"
    /\ cont[obs.d].case = "Owned"
    /\ obs.out = "Greater"
    /\ clones = 0

\* C15: an Owned container's accesses act on its own value: the payload of an
\* Owned container, and the value taken out of it, is the payload it was built
\* with plus the calls made through the container: k exclusive calls through a
\* mutable container (m shared calls through any) on a fresh payload give
\* mut_calls = k and calls = m, the other counter staying 0.
C15_OwnedActsOnOwn ==
    /\ \A c \in Cid :
         cont[c].case = "Owned" =>
           /\ Held(c).data = base[c].data
           /\ Held(c).calls = base[c].calls + via[c].m
           /\ Held(c).mut_calls = base[c].mut_calls + via[c].k
    /\ obs.op = "take_owned" =>
         /\ obs.out.data = base[obs.c].data
         /\ obs.out.calls = base[obs.c].calls + via[obs.c].m
         /\ obs.out.mut_calls = base[obs.c].mut_calls + via[obs.c].k
         /\ typename \notin Mutable => via[obs.c].k = 0

C15_Witness ==
    /\ obs.op = "take_owned"
    /\ typename = "RefMutOrBox"
    /\ base[obs.c] = T_default(0)
    /\ via[obs.c] = [m |-> 0, k |-> 1]
    /\ obs.out = [data |-> 0, calls |-> 0, mut_calls |-> 1]

\* C16: the other entry points agree with deref and deref_mut: as_ref and borrow
\* yield the place and the payload deref yields, in both cases of all four
\* types; as_mut and borrow_mut yield the place deref_mut yields, and a write
\* through either is read back by deref, as_ref and borrow alike.
C16_EntryPointsAgree ==
    /\ obs.op \in {"as_ref", "borrow"} =>
         /\ obs.place = deref(obs.c)
         /\ obs.out = Held(obs.c)
    /\ obs.op \in {"as_mut", "borrow_mut"} =>
         /\ typename \in Mutable
         /\ obs.place = deref_mut(obs.c)
         /\ Held(obs.c) = do_mutable(obs.pre)
         /\ ReadAt(deref(obs.c)) = Held(obs.c)
         /\ ReadAt(as_ref(obs.c)) = Held(obs.c)
         /\ ReadAt(borrow(obs.c)) = Held(obs.c)

C16_Witness ==
    /\ obs.op = "borrow_mut"
    /\ typename = "RefMutOrBox"
    /\ cont[obs.c].case = "Owned"
    /\ ReadAt(as_ref(obs.c)).mut_calls = 2

====
